---------------------------- MODULE Spec2Model ----------------------------
(***************************************************************************)
(* A model of weather.py: main -> get_weather -> parse_weather_data ->     *)
(* display_weather.  Python values are tagged records, Python expressions  *)
(* evaluate to a value or to the exception they raise, and each step of    *)
(* main is one action.                                                     *)
(***************************************************************************)
EXTENDS Integers, Sequences, FiniteSets, TLC

VARIABLES argv, pc, postal_code, requests_sent, response, data,
          weather_info, stdout, exit_code, uncaught

vars == <<argv, pc, postal_code, requests_sent, response, data,
          weather_info, stdout, exit_code, uncaught>>

(***************************************************************************)
(* Python / JSON values.  A str is its sequence of characters, a list its  *)
(* sequence of items, a dict the function from its keys to their values.   *)
(***************************************************************************)
None == [t |-> "none"]
Bool(b) == [t |-> "bool", b |-> b]
Num(n) == [t |-> "num", n |-> n]
Str(s) == [t |-> "str", s |-> s]
List(l) == [t |-> "list", items |-> l]
Dict(f) == [t |-> "dict", fields |-> f]

EmptyFields == [k \in {} |-> None]

\* The result of evaluating an expression: a value, or a raised exception.
Ok(v) == [exc |-> "none", val |-> v]
Raise(e) == [exc |-> e]

\* x.get(k, d): only a dict has .get; any other object raises AttributeError.
PyGet(x, k, d) ==
    IF x.t = "dict"
      THEN IF k \in DOMAIN x.fields THEN Ok(x.fields[k]) ELSE Ok(d)
      ELSE Raise("AttributeError")

\* x[0]: first item of a list, first character of a str; a dict parsed from
\* JSON has only str keys, so 0 is a KeyError; None, bool and numbers are not
\* subscriptable.
PyIndex0(x) ==
    CASE x.t = "list" -> IF Len(x.items) = 0 THEN Raise("IndexError")
                                              ELSE Ok(x.items[1])
      [] x.t = "str"  -> IF Len(x.s) = 0 THEN Raise("IndexError")
                                          ELSE Ok(Str(<<x.s[1]>>))
      [] x.t = "dict" -> Raise("KeyError")
      [] OTHER        -> Raise("TypeError")

\* r.get(k, d) and r[0] applied to the result of a sub-expression: an
\* exception raised by the sub-expression propagates.
ThenGet(r, k, d) == IF r.exc = "none" THEN PyGet(r.val, k, d) ELSE r
ThenIndex0(r) == IF r.exc = "none" THEN PyIndex0(r.val) ELSE r

\* String literals of the program.
NA == Str(<<"N", "/", "A">>)
Unknown == Str(<<"U", "n", "k", "n", "o", "w", "n">>)
DefaultList == List(<<Dict(EmptyFields)>>)


\* Truth value of an object, as `if x:` and `not x` take it.
Truthy(x) ==
    CASE x.t = "none" -> FALSE
      [] x.t = "bool" -> x.b
      [] x.t = "num"  -> x.n # 0
      [] x.t = "str"  -> Len(x.s) > 0
      [] x.t = "list" -> Len(x.items) > 0
      [] x.t = "dict" -> DOMAIN x.fields # {}

(***************************************************************************)
(* parse_weather_data                                                      *)
(***************************************************************************)
\* data.get('current_condition', [{}])[0]
CurrentExpr(d) == ThenIndex0(PyGet(d, "current_condition", DefaultList))

\* data.get('nearest_area', [{}])[0].get('areaName', [{}])[0].get('value', 'Unknown')
LocationExpr(d) ==
    ThenGet(ThenIndex0(ThenGet(ThenIndex0(PyGet(d, "nearest_area", DefaultList)),
                               "areaName", DefaultList)),
            "value", Unknown)

\* current.get('weatherDesc', [{}])[0].get('value', 'N/A')
ConditionExpr(current) ==
    ThenGet(ThenIndex0(PyGet(current, "weatherDesc", DefaultList)), "value", NA)

\* Mutant: temp_C and temp_F read for each other's field.
FieldExprs_SwappedTemps(d, current) ==
    << LocationExpr(d),
       PyGet(current, "temp_F", NA),
       PyGet(current, "temp_C", NA),
       ConditionExpr(current),
       PyGet(current, "humidity", NA),
       PyGet(current, "windspeedKmph", NA),
       PyGet(current, "visibility", NA) >>

\* The value expressions of the dict display, in the order Python evaluates
\* them (postal_code, a plain name, cannot raise and is left out).
FieldExprs(d, current) ==
    << LocationExpr(d),
       PyGet(current, "temp_C", NA),
       PyGet(current, "temp_F", NA),
       ConditionExpr(current),
       PyGet(current, "humidity", NA),
       PyGet(current, "windspeedKmph", NA),
       PyGet(current, "visibility", NA) >>

\* The exception the evaluation of a sequence of expressions stops at: that
\* of the first expression that raises ("none" when none does).
FirstRaised(rs) ==
    IF \A i \in 1..Len(rs) : rs[i].exc = "none"
      THEN "none"
      ELSE rs[CHOOSE i \in 1..Len(rs) :
                 /\ rs[i].exc # "none"
                 /\ \A j \in 1..(i - 1) : rs[j].exc = "none"].exc

WeatherInfo(p, rs) ==
    Dict([postal_code   |-> p,
          location      |-> rs[1].val,
          temperature   |-> rs[2].val,
          temperature_f |-> rs[3].val,
          condition     |-> rs[4].val,
          humidity      |-> rs[5].val,
          wind_speed    |-> rs[6].val,
          visibility    |-> rs[7].val])

\* The body of the try block: the record, or the exception raised.
ParseTry(d, p) ==
    LET c == CurrentExpr(d) IN
    IF c.exc # "none" THEN Raise(c.exc)
    ELSE LET rs == FieldExprs(d, c.val) IN
         IF FirstRaised(rs) # "none" THEN Raise(FirstRaised(rs))
                                     ELSE Ok(WeatherInfo(p, rs))

\* except (KeyError, IndexError, TypeError)
ParseCaught == {"KeyError", "IndexError", "TypeError"}

\* One line of console output: what it is, and the values formatted into it.
Line(kind, args) == [kind |-> kind, args |-> args]

\* The outcome of a call: the exception that left it ("none" on return), the
\* value returned, the lines it printed.
Outcome(exc, val, out) == [exc |-> exc, val |-> val, out |-> out]

parse_weather_data(d, p) ==
    LET r == ParseTry(d, p) IN
    CASE r.exc = "none"       -> Outcome("none", r.val, <<>>)
      [] r.exc \in ParseCaught -> Outcome("none", None, <<Line("parse_error", <<>>)>>)
      [] OTHER                -> Outcome(r.exc, None, <<>>)

(***************************************************************************)
(* display_weather                                                         *)
(***************************************************************************)
BorderWidth == 50
Border == Line("border", <<Num(BorderWidth)>>)
Blank == Line("blank", <<>>)

\* Mutant: the two temperatures on a line each.
display_weather_SplitTemperature(info) ==
    IF ~Truthy(info) THEN <<>>
    ELSE LET w == info.fields IN
         << Blank, Border,
            Line("title", <<w.location>>),
            Line("postal_code", <<w.postal_code>>),
            Line("date", <<>>),
            Border,
            Line("temperature", <<w.temperature>>),
            Line("temperature", <<w.temperature_f>>),
            Line("condition", <<w.condition>>),
            Line("humidity", <<w.humidity>>),
            Line("wind_speed", <<w.wind_speed>>),
            Line("visibility", <<w.visibility>>),
            Border, Blank >>

display_weather(info) ==
    IF ~Truthy(info) THEN <<>>
    ELSE LET w == info.fields IN
         << Blank, Border,                                  \* print("\n" + "="*50)
            Line("title", <<w.location>>),
            Line("postal_code", <<w.postal_code>>),
            Line("date", <<>>),
            Border,
            Line("temperature", <<w.temperature, w.temperature_f>>),
            Line("condition", <<w.condition>>),
            Line("humidity", <<w.humidity>>),
            Line("wind_speed", <<w.wind_speed>>),
            Line("visibility", <<w.visibility>>),
            Border, Blank >>                                \* print("="*50 + "\n")

(***************************************************************************)
(* The environment: command lines, responses of the weather service and    *)
(* the JSON documents it may send.                                         *)
(***************************************************************************)
MaxArgs == 2

Prog == Str(<<"w">>)
PostalCodes == {Str(<<"1", "0", "0", "0", "1">>), Str(<<"S", "W", "1">>)}

\* sys.argv: the program name, then up to MaxArgs arguments.
Argvs == {<<Prog>> \o a : a \in UNION {[1..n -> PostalCodes] : n \in 0..MaxArgs}}

S20 == Str(<<"2", "0">>)
S68 == Str(<<"6", "8">>)
S50 == Str(<<"5", "0">>)
S10 == Str(<<"1", "0">>)
Sunny == Str(<<"S", "u", "n", "n", "y">>)
NewYork == Str(<<"N", "e", "w", " ", "Y", "o", "r", "k">>)

\* A key that is absent, or present with one of the values.
Opt(k, vals) == {EmptyFields} \cup {k :> v : v \in vals}

\* Values that are not a list whose first item is an object.
Malformed ==
    { None, Num(3), Str(<<>>), Str(<<"x">>), Dict(EmptyFields),
      List(<<>>), List(<<None>>), List(<<Str(<<"x">>)>>) }

\* [{...}], and [{...}, {}] whose second item nothing reads.
Lists(objs) ==
    {List(<<Dict(f)>>) : f \in objs} \cup
    {List(<<Dict(f), Dict(EmptyFields)>>) : f \in {g \in objs : g # EmptyFields}}

ValueObjs(v) == Opt("value", {v})

CurrentObjs ==
    { a @@ b @@ c @@ d @@ e @@ f :
        a \in Opt("temp_C", {S20, None}),
        b \in Opt("temp_F", {S68}),
        c \in Opt("weatherDesc", Lists(ValueObjs(Sunny)) \cup Malformed),
        d \in Opt("humidity", {S50}),
        e \in Opt("windspeedKmph", {S10}),
        f \in Opt("visibility", {S10}) }

AreaObjs == Opt("areaName", Lists(ValueObjs(NewYork)) \cup Malformed)

\* Every document whose top level is an object, and every other JSON value.
Documents ==
    { Dict(c @@ n) :
        c \in Opt("current_condition", {List(<<Dict(f)>>) : f \in CurrentObjs} \cup Malformed),
        n \in Opt("nearest_area", Lists(AreaObjs) \cup Malformed) }
    \cup Malformed

\* The exception classes response.json() raises for a body that is not
\* JSON, each given by the classes the handlers of get_weather test for:
\* requests.exceptions.JSONDecodeError (requests >= 2.27) derives from both
\* RequestException and json.JSONDecodeError; before, json.JSONDecodeError
\* itself was raised.
JsonErrorClasses == { {"RequestException", "JSONDecodeError"}, {"JSONDecodeError"} }

StatusCodes == {200, 404, 500}

HttpResponse(status, is_json, body, err) ==
    [kind |-> "http", status |-> status, is_json |-> is_json, body |-> body,
     json_error |-> err]

NoResponse ==
    [kind |-> "none", status |-> 0, is_json |-> FALSE, body |-> None, json_error |-> {}]

\* requests.get raised (DNS, connection refused, timeout, ...).
TransportFailure ==
    [kind |-> "error", status |-> 0, is_json |-> FALSE, body |-> None,
     json_error |-> {"RequestException"}]

Responses ==
    {TransportFailure}
    \cup {HttpResponse(s, FALSE, None, e) : s \in StatusCodes, e \in JsonErrorClasses}
    \cup {HttpResponse(s, TRUE, d, {}) : s \in StatusCodes \ {200}, d \in {Dict(EmptyFields)}}
    \cup {HttpResponse(200, TRUE, d, {}) : d \in Documents}

RequestTimeout == 10

\* requests.get(f"https://wttr.in/{postal_code}?format=j1", headers=headers, timeout=10)
Request(p) ==
    [method |-> "GET", host |-> "wttr.in", path |-> p, query |-> "format=j1",
     timeout |-> RequestTimeout]

(***************************************************************************)
(* The run of main, one action per step.                                   *)
(***************************************************************************)
Init ==
    /\ argv \in Argvs
    /\ pc = "main"
    /\ postal_code = None
    /\ requests_sent = <<>>
    /\ response = NoResponse
    /\ data = None
    /\ weather_info = None
    /\ stdout = <<>>
    /\ exit_code = -1              \* the process has not exited
    /\ uncaught = "none"

\* Mutant: the usage text is printed but sys.exit(1) is missing.
MainUsage_NoExit ==
    /\ pc = "main"
    /\ Len(argv) # 2
    /\ stdout' = stdout \o <<Line("usage", <<>>), Line("usage_example", <<>>),
                            Line("retrieving", <<argv[Len(argv)]>>)>>
    /\ postal_code' = argv[Len(argv)]
    /\ pc' = "get_weather"
    /\ UNCHANGED <<argv, requests_sent, response, data, weather_info, exit_code, uncaught>>

\* if len(sys.argv) != 2: usage, sys.exit(1)
MainUsage ==
    /\ pc = "main"
    /\ Len(argv) # 2
    /\ stdout' = stdout \o <<Line("usage", <<>>), Line("usage_example", <<>>)>>
    /\ exit_code' = 1
    /\ pc' = "exited"
    /\ UNCHANGED <<argv, postal_code, requests_sent, response, data, weather_info, uncaught>>

\* postal_code = sys.argv[1]; print("Retrieving ..."); get_weather(postal_code)
MainRetrieve ==
    /\ pc = "main"
    /\ Len(argv) = 2
    /\ postal_code' = argv[2]
    /\ stdout' = Append(stdout, Line("retrieving", <<argv[2]>>))
    /\ pc' = "get_weather"
    /\ UNCHANGED <<argv, requests_sent, response, data, weather_info, exit_code, uncaught>>

\* get_weather: the GET is issued and the service (or the network) answers.
GetWeatherRequest ==
    /\ pc = "get_weather"
    /\ requests_sent' = Append(requests_sent, Request(postal_code))
    /\ response' \in Responses
    /\ pc' = "response"
    /\ UNCHANGED <<argv, postal_code, data, weather_info, stdout, exit_code, uncaught>>

\* The except clause of get_weather that handles an exception of the given
\* classes: the clauses are tried in the order they are written.
GetWeatherHandler(classes) ==
    CASE "RequestException" \in classes -> "connect_error"
      [] "JSONDecodeError" \in classes  -> "invalid_response"
      [] OTHER                          -> "propagate"

\* get_weather returns None after its handler printed the message.
GetWeatherFails(line) ==
    /\ stdout' = Append(stdout, line)
    /\ weather_info' = None
    /\ pc' = "main_result"
    /\ UNCHANGED <<argv, postal_code, requests_sent, response, data, exit_code, uncaught>>

\* requests.get raised a RequestException.
GetWeatherTransportError ==
    /\ pc = "response"
    /\ response.kind = "error"
    /\ GetWeatherFails(Line(GetWeatherHandler(response.json_error), <<>>))

\* Mutant: the status code is not tested and the body is parsed regardless.
GetWeatherBadStatus_ParsesBody ==
    /\ pc = "response"
    /\ response.kind = "http"
    /\ response.status # 200
    /\ data' = response.body
    /\ pc' = "parse_weather_data"
    /\ UNCHANGED <<argv, postal_code, requests_sent, response, weather_info, stdout,
                   exit_code, uncaught>>

\* response.status_code != 200
GetWeatherBadStatus ==
    /\ pc = "response"
    /\ response.kind = "http"
    /\ response.status # 200
    /\ GetWeatherFails(Line("status_error", <<Num(response.status)>>))

\* response.status_code == 200 and response.json() raises.
GetWeatherJsonError ==
    /\ pc = "response"
    /\ response.kind = "http"
    /\ response.status = 200
    /\ ~response.is_json
    /\ GetWeatherFails(Line(GetWeatherHandler(response.json_error), <<>>))

\* response.status_code == 200 and data = response.json()
GetWeatherJson ==
    /\ pc = "response"
    /\ response.kind = "http"
    /\ response.status = 200
    /\ response.is_json
    /\ data' = response.body
    /\ pc' = "parse_weather_data"
    /\ UNCHANGED <<argv, postal_code, requests_sent, response, weather_info, stdout,
                   exit_code, uncaught>>

\* return parse_weather_data(data, postal_code).  An exception that leaves
\* parse_weather_data is offered to the handlers of get_weather; one that
\* none of them takes leaves main too, and the interpreter ends the process
\* with a traceback on stderr and exit status 1.
ParseWeatherData ==
    /\ pc = "parse_weather_data"
    /\ LET r == parse_weather_data(data, postal_code) IN
       IF r.exc = "none"
         THEN /\ weather_info' = r.val
              /\ stdout' = stdout \o r.out
              /\ pc' = "main_result"
              /\ UNCHANGED <<exit_code, uncaught>>
         ELSE /\ GetWeatherHandler({r.exc}) = "propagate"
              /\ uncaught' = r.exc
              /\ exit_code' = 1
              /\ pc' = "exited"
              /\ UNCHANGED <<weather_info, stdout>>
    /\ UNCHANGED <<argv, postal_code, requests_sent, response, data>>

\* if weather_info: display_weather(weather_info); main returns, exit status 0
MainDisplay ==
    /\ pc = "main_result"
    /\ Truthy(weather_info)
    /\ stdout' = stdout \o display_weather(weather_info)
    /\ exit_code' = 0
    /\ pc' = "exited"
    /\ UNCHANGED <<argv, postal_code, requests_sent, response, data, weather_info, uncaught>>

\* Mutant: a failed retrieval is tried again instead of ending the run.
MainFailed_Retries ==
    /\ pc = "main_result"
    /\ ~Truthy(weather_info)
    /\ stdout' = Append(stdout, Line("failed", <<>>))
    /\ pc' = "get_weather"
    /\ UNCHANGED <<argv, postal_code, requests_sent, response, data, weather_info,
                   exit_code, uncaught>>

\* Mutant: the block is printed, with the defaults, for an absent record too.
MainFailed_DisplaysAnyway ==
    /\ pc = "main_result"
    /\ ~Truthy(weather_info)
    /\ stdout' = Append(stdout, Line("failed", <<>>))
                    \o display_weather(WeatherInfo(postal_code,
                           [i \in 1..7 |-> Ok(IF i = 1 THEN Unknown ELSE NA)]))
    /\ exit_code' = 1
    /\ pc' = "exited"
    /\ UNCHANGED <<argv, postal_code, requests_sent, response, data, weather_info, uncaught>>

\* else: print("Failed to retrieve weather information."); sys.exit(1)
MainFailed ==
    /\ pc = "main_result"
    /\ ~Truthy(weather_info)
    /\ stdout' = Append(stdout, Line("failed", <<>>))
    /\ exit_code' = 1
    /\ pc' = "exited"
    /\ UNCHANGED <<argv, postal_code, requests_sent, response, data, weather_info, uncaught>>

Next ==
    \/ MainUsage
    \/ MainRetrieve
    \/ GetWeatherRequest
    \/ GetWeatherTransportError
    \/ GetWeatherBadStatus
    \/ GetWeatherJsonError
    \/ GetWeatherJson
    \/ ParseWeatherData
    \/ MainDisplay
    \/ MainFailed

Spec == Init /\ [][Next]_vars

(***************************************************************************)
(* What a document holds at a path, read off the document itself.  A path  *)
(* is its keys; between two keys stands the index [0].                     *)
(***************************************************************************)
IsObjList(v) == v.t = "list" /\ Len(v.items) > 0 /\ v.items[1].t = "dict"

Present(v) == [at |-> "present", val |-> v]
Absent == [at |-> "absent", val |-> None]
Broken == [at |-> "broken", val |-> None]

RECURSIVE Lookup(_, _)
Lookup(x, path) ==
    IF x.t # "dict" THEN Broken
    ELSE IF Head(path) \notin DOMAIN x.fields THEN Absent
    ELSE LET v == x.fields[Head(path)] IN
         IF Len(path) = 1 THEN Present(v)
         ELSE IF IsObjList(v) THEN Lookup(v.items[1], Tail(path))
         ELSE Broken

Fields ==
    {"location", "temperature", "temperature_f", "condition", "humidity",
     "wind_speed", "visibility"}

PathOf ==
    [location      |-> <<"nearest_area", "areaName", "value">>,
     temperature   |-> <<"current_condition", "temp_C">>,
     temperature_f |-> <<"current_condition", "temp_F">>,
     condition     |-> <<"current_condition", "weatherDesc", "value">>,
     humidity      |-> <<"current_condition", "humidity">>,
     wind_speed    |-> <<"current_condition", "windspeedKmph">>,
     visibility    |-> <<"current_condition", "visibility">>]

DefaultOf ==
    [location |-> Unknown, temperature |-> NA, temperature_f |-> NA, condition |-> NA,
     humidity |-> NA, wind_speed |-> NA, visibility |-> NA]

At(f) == Lookup(data, PathOf[f]).at

\* The document's value at the field's path, the field's default without one.
Expected(f) ==
    IF At(f) = "present" THEN Lookup(data, PathOf[f]).val ELSE DefaultOf[f]

\* The top-level container is absent, or a list whose first item is an object.
TopLevelOk(k) == k \in DOMAIN data.fields => IsObjList(data.fields[k])

\* get_weather got a 200 response with a JSON body and is done with it.
Parsed ==
    /\ pc \in {"main_result", "exited"}
    /\ response.kind = "http"
    /\ response.status = 200
    /\ response.is_json

Printed(kind) == \E i \in 1..Len(stdout) : stdout[i].kind = kind

BlockKinds ==
    {"blank", "border", "title", "postal_code", "date", "temperature", "condition",
     "humidity", "wind_speed", "visibility"}

ErrorKinds ==
    {"usage", "connect_error", "status_error", "invalid_response", "parse_error", "failed"}

BlockPrinted == \E k \in BlockKinds : Printed(k)

IsRecord(info) == info.t = "dict" /\ DOMAIN info.fields = Fields \cup {"postal_code"}

(***************************************************************************)
(* Claims                                                                  *)
(***************************************************************************)
\* C1: for a document (an object) in which each of the seven paths is either
\* there or missing a key, parse_weather_data returns a record that holds the
\* document's value for every path that is there and the default ('Unknown'
\* for location, 'N/A' otherwise) for exactly the missing ones, with
\* postal_code the caller's argument.
C1_DefaultsExactlyForMissingPaths ==
    (Parsed /\ \A f \in Fields : At(f) # "broken") =>
        /\ IsRecord(weather_info)
        /\ weather_info.fields.postal_code = argv[2]
        /\ \A f \in Fields : weather_info.fields[f] = Expected(f)

C1_Witness ==
    /\ Parsed
    /\ \A f \in Fields : At(f) # "broken"
    /\ At("location") = "present"
    /\ At("condition") = "absent"
    /\ At("temperature") = "absent"
    /\ At("humidity") = "present"
    /\ IsRecord(weather_info)
    /\ weather_info.fields.location = NewYork
    /\ weather_info.fields.temperature = NA

\* C2: with the top-level containers in order, a level of one field's path
\* that is absent, of unexpected type or out of range (weatherDesc or areaName
\* empty, or not a list of objects) defaults that field alone: a record is
\* still returned, with every other field extracted.
C2_SingleFieldNeverFailsExtraction ==
    (/\ Parsed
     /\ data.t = "dict"
     /\ TopLevelOk("current_condition")
     /\ TopLevelOk("nearest_area")) =>
        /\ IsRecord(weather_info)
        /\ \A f \in Fields : weather_info.fields[f] = Expected(f)

\* C3: a 200 response whose JSON has a wrong-typed top level (the document is
\* not an object, or current_condition / nearest_area is not a list whose
\* first item is an object) ends with 'Error: Unable to parse weather data',
\* no record, 'Failed to retrieve weather information.' and exit code 1.
C3_StructuralErrorReported ==
    (/\ pc = "exited"
     /\ response.kind = "http" /\ response.status = 200 /\ response.is_json
     /\ \/ data.t # "dict"
        \/ ~TopLevelOk("current_condition")
        \/ ~TopLevelOk("nearest_area")) =>
        /\ weather_info = None
        /\ Printed("parse_error")
        /\ Printed("failed")
        /\ exit_code = 1

\* C4: a 200 response whose body is not JSON yields no record and the message
\* 'Error: Invalid response from weather service', not the transport-error
\* message, and the process exits with code 1.
C4_InvalidJsonReportedAsDecodeError ==
    (/\ pc \in {"main_result", "exited"}
     /\ response.kind = "http" /\ response.status = 200 /\ ~response.is_json) =>
        /\ weather_info = None
        /\ Printed("invalid_response")
        /\ ~Printed("connect_error")
        /\ pc = "exited" => exit_code = 1

\* C5: a response whose status is not 200 yields no record, its body is never
\* parsed, the message printed carries that status code, and the process
\* exits with code 1.
C5_Non200Reported ==
    (/\ pc \in {"main_result", "exited"}
     /\ response.kind = "http" /\ response.status # 200) =>
        /\ weather_info = None
        /\ data = None
        /\ \E i \in 1..Len(stdout) :
              stdout[i] = Line("status_error", <<Num(response.status)>>)
        /\ ~BlockPrinted
        /\ pc = "exited" => (exit_code = 1 /\ uncaught = "none")

C5_Witness ==
    /\ pc = "exited"
    /\ response.kind = "http" /\ response.status = 404
    /\ exit_code = 1
    /\ Printed("status_error")

\* C6: with an argument count other than one, main prints the usage text and
\* exits with code 1, and no HTTP request is issued at any point of the run.
C6_UsageErrorMakesNoRequest ==
    Len(argv) # 2 =>
        /\ requests_sent = <<>>
        /\ response = NoResponse
        /\ pc \in {"main", "exited"}
        /\ pc = "exited" =>
              /\ stdout = <<Line("usage", <<>>), Line("usage_example", <<>>)>>
              /\ exit_code = 1

C6_Witness ==
    /\ Len(argv) = 3
    /\ pc = "exited"
    /\ exit_code = 1
    /\ Printed("usage")

\* C7: every run ends with exit code 0 or 1; 0 exactly when a record was
\* retrieved and displayed; 1 for every error kind, each after a message of
\* the program was printed, and in no other way (no exception ends the run).
C7_ExitCodes ==
    pc = "exited" =>
        /\ exit_code \in {0, 1}
        /\ exit_code = 0 <=> (IsRecord(weather_info) /\ Printed("temperature"))
        /\ exit_code = 1 =>
              /\ uncaught = "none"
              /\ \E k \in ErrorKinds : Printed(k)

\* C8: at most one GET is issued in a run, for the postal code as given on
\* the command line with format=j1; once the response is in, no request can
\* be issued any more, every failure message leaves get_weather returned or
\* the process exited, and the run then goes on to its exit.
C8_SingleRequest ==
    /\ Len(requests_sent) <= 1
    /\ \A i \in 1..Len(requests_sent) :
          /\ Len(argv) = 2
          /\ requests_sent[i].method = "GET"
          /\ requests_sent[i].host = "wttr.in"
          /\ requests_sent[i].path = argv[2]
          /\ requests_sent[i].query = "format=j1"
    /\ pc \in {"response", "parse_weather_data", "main_result", "exited"} =>
          ~ENABLED GetWeatherRequest
    /\ pc \in {"response", "parse_weather_data", "main_result"} => Len(requests_sent) = 1
    /\ (\E k \in ErrorKinds : Printed(k)) => pc \in {"main_result", "exited"}
    /\ pc = "response" =>
          ENABLED (GetWeatherTransportError \/ GetWeatherBadStatus
                      \/ GetWeatherJsonError \/ GetWeatherJson)
    /\ pc = "main_result" => ENABLED (MainDisplay \/ MainFailed)
    /\ (pc = "main_result" /\ weather_info = None) => ENABLED MainFailed

C8_Witness ==
    /\ pc = "exited"
    /\ Len(requests_sent) = 1
    /\ requests_sent[1].path = Str(<<"S", "W", "1">>)
    /\ response.kind = "error"
    /\ Printed("failed")

\* The lines display_weather printed, and where its border lines are.
IsBlockLine(l) == l.kind \in BlockKinds
Block == SelectSeq(stdout, IsBlockLine)
BorderAt == {i \in 1..Len(Block) : Block[i] = Border}
NthBorder(n) == CHOOSE i \in BorderAt : Cardinality({j \in BorderAt : j < i}) = n - 1
KindsBetween(a, b) == [i \in 1..(b - a - 1) |-> Block[a + i].kind]

\* The run displayed a record.
Displayed == pc = "exited" /\ exit_code = 0

\* Header and footer borders around title, postal code and date; then the
\* data lines up to the closing border, nothing but a blank line after it;
\* one temperature line, holding both the Celsius and the Fahrenheit value.
BlockFrame ==
    /\ Cardinality(BorderAt) = 3
    /\ KindsBetween(NthBorder(1), NthBorder(2)) = <<"title", "postal_code", "date">>
    /\ \A i \in 1..Len(Block) :
          (i < NthBorder(1) \/ i > NthBorder(3)) => Block[i] = Blank
    /\ \E i \in (NthBorder(2) + 1)..(NthBorder(3) - 1) :
          /\ Block[i] = Line("temperature", <<weather_info.fields.temperature,
                                              weather_info.fields.temperature_f>>)
          /\ \A j \in 1..Len(Block) : Block[j].kind = "temperature" => j = i

DataLineCount == NthBorder(3) - NthBorder(2) - 1

\* C9 as stated: the display of a present record has the header and footer
\* borders and exactly 6 data lines, the temperature in both units on one
\* line, and a closing border.
C9_SixDataLines == Displayed => (BlockFrame /\ DataLineCount = 6)

\* C9 amended: the display of a present record has the header and footer
\* borders and exactly 5 data lines (temperature, condition, humidity, wind
\* speed, visibility), the temperature in both units on one line, and a
\* closing border.
C9_FiveDataLines ==
    Displayed =>
        /\ BlockFrame
        /\ DataLineCount = 5
        /\ KindsBetween(NthBorder(2), NthBorder(3)) =
              <<"temperature", "condition", "humidity", "wind_speed", "visibility">>

C9_Witness ==
    /\ Displayed
    /\ Len(Block) = 13
    /\ weather_info.fields.temperature = S20
    /\ weather_info.fields.temperature_f = S68

=============================================================================
